---- MODULE Spec2Model ----
(***************************************************************************)
(* A model of src/src/App.tsx: the gesture debouncer of GestureController  *)
(* (predictWebcam), the lightbox state machine of Experience (its frame    *)
(* callback, its scene-state effect and its timers), the batch bookkeeping *)
(* of ParticleEffect and the per-frame lerp of the three populations.      *)
(*                                                                         *)
(* Units.  Scores are in hundredths (0.35 -> 35), thumb-to-index distances *)
(* in thousandths (0.072 -> 72), openness in hundredths (1.35 -> 135),     *)
(* the wrist abscissa in hundredths (0.5 -> 50), rotation speeds in 1e-4   *)
(* radians, times in milliseconds, as Date.now() and setTimeout count.     *)
(*                                                                         *)
(* React.  A handler is one action.  The state updates a handler makes are *)
(* committed, and the effects whose dependencies changed are run, before   *)
(* the next handler starts; the action includes that commit.  A frame      *)
(* callback registered with useFrame reads the state of the last commit.   *)
(*                                                                         *)
(* Time.  now is Date.now().  A timer fires at the instant it is due: time *)
(* does not pass a pending timer's due instant, and handlers that run at   *)
(* the same instant run in any order.                                      *)
(***************************************************************************)
EXTENDS Integers, Sequences, FiniteSets, TLC

\* ---------------------------------------------------------------- bounds
\* gestureStableCountRef is unbounded in the code; frames that would take it
\* past this value are not generated.
MaxStableCount == 4
\* Frames (classification and render) are generated up to this instant;
\* afterwards only the pending timers run.
MaxTime == 700
\* The code never cancels the timers of a transition; frames are classified
\* only while at most this many callbacks are pending.
MaxPendingTimers == 2
\* The same for the specification of the ambient fireworks, which needs the
\* lightbox open for the lifetime of a batch.
MaxAmbientTime == 4000
\* Positions are unbounded in the code; animation frames that would take an
\* entity farther than this from the origin are not generated.
MaxPos == 24
\* CONFIG.counts.ornaments is 200 in the code; the model mounts this many.
NumOrnaments == 6
\* The classification loop can report error statuses without end; frames
\* that would report one more than this many are not generated.
MaxStatusLog == 3
\* The GestureController effect can run again without end; it is not run
\* again while this many setups and loops of torn-down runs are left.
MaxStaleRuns == 2
\* The ornaments hang on a line, this far apart (random positions in the code).
OrnamentSpacing == 10

\* ----------------------------------------------------- program constants
GestureScoreThreshold == 35
GestureStableThreshold == 2
PinchDownThreshold == 72
PinchUpThreshold == 98
PinchScoreThreshold == 50
OpennessMin == 135
OpennessMax == 225
PinchStableThreshold == 2
RotationGain == 15
RotationDeadZone == 100
RotationCentre == 50
PinchCooldownMs == 650
FireworkTriggerMs == 100
ActiveWindowMs == 2000
TransitionTailMs == 3000
AmbientTailMs == 2500
FadeInMs == 10
FadeOutMs == 400
NearestCount == 5
MAX_RECENT_HISTORY == 10

NoTimer == 0
NoPhoto == -1
\* NaN, the remainder of a division by 0 (App.tsx 747), told from every index
NaN == -2
\* lerp factors per second, in thousandths (App.tsx 283, 408, 454)
PhotoFormedRate == 800
PhotoChaosRate == 500
ElementRate == 1500
LightRate == 2000
MaxAmbientBatches == 8
SpawnIntervalMs == 300

\* ------------------------------------------------------------ the inputs
\* What recognizeForVideo returns on one frame, reduced to what predictWebcam
\* reads: whether results.gestures is non-empty, gestures[0][0].categoryName
\* and .score, whether results.landmarks[0] is non-empty, and the three
\* quantities computed from the landmarks (wrist x, thumb-index distance,
\* openness).  kind "throw" is a frame on which the classifier throws msg;
\* kind "novideo" a frame on which videoWidth is 0.
Labels == {"Open_Palm", "Closed_Fist", "Victory"}
Scores == {35, 50, 90}
WristXs == {43, 44}
Distances == {50, 72, 97, 98}
Opennesses == {135, 180, 225}
ErrorMessages == {"e1", "e2"}

NoGesture == [has |-> FALSE, name |-> "", score |-> 0]
NoHand == [has |-> FALSE, x |-> RotationCentre, dist |-> 0, openness |-> 0]
Gesture(name, score) == [has |-> TRUE, name |-> name, score |-> score]
Hand(x, dist, openness) == [has |-> TRUE, x |-> x, dist |-> dist, openness |-> openness]

GestureInputs == {NoGesture} \cup {Gesture(n, s) : n \in Labels, s \in Scores}
HandInputs ==
  {NoHand} \cup {Hand(x, d, o) : x \in WristXs, d \in Distances, o \in Opennesses}

Frames(kinds, gs, hs, msgs) == [kind : kinds, g : gs, h : hs, msg : msgs]
OkFrames_(gs, hs) == Frames({"ok"}, gs, hs, {""})
OkFrames == OkFrames_(GestureInputs, HandInputs)
ThrowFrames == Frames({"throw"}, {NoGesture}, {NoHand}, ErrorMessages)
NoVideoFrames == Frames({"novideo"}, {NoGesture}, {NoHand}, {""})

\* The photo list GrandTreeApp hands down: its length (fetchPhotos always appends
\* the 35 bundled photos, so a fetched list is never empty; it is empty until
\* the first fetch answers).  The selection is checked on longer lists
\* (SelectionPhotoCounts).
PhotoCounts == {1}
\* Where the camera stands when a photo is selected (one coordinate), and where
\* ornament i hangs: camera.position.distanceTo(group.position) is the
\* difference.
CameraPositions == {0, 25, 50}
\* The grid of idle time: when no timer is due sooner, time passes to the next
\* multiple of a step.
Steps == {650}

\* createFirework: timeToExplode = |explosionHeight - launchY| / launchSpeed,
\* in (857, 2250) ms for a transition batch, in (120, 733) ms for an ambient one.
TransitionExplodeTimes == {1000}
AmbientExplodeTimes == {500}

\* One entity of each population on one axis: its chaos position and its target
\* position (random in the code), and the weight of the photo ornament, in
\* thousandths (0.8 + Math.random() * 1.2).  Frame deltas are in ms.
Populations == {"photo", "element", "light"}
EntityPositions == [chaos |-> 0, target |-> 8]
\* The chaos and target positions Math.random() can produce for the entity of
\* PhotoOrnaments (App.tsx 235-242).
Layouts == [chaos : {0, 4}, target : {8, 12}]
Weights == {1250}
Deltas == {250, 500, 1000}

VARIABLES
  \* GestureController refs
  lastGestureRef, gestureStableCountRef, pinchStateRef,
  pinchChangeStableCountRef, lastRuntimeErrorRef,
  \* requestRef: an animation frame is requested for predictWebcam by the
  \* loop of the current run of the GestureController effect
  requestRef,
  \* the lifecycle: the application is mounted; the setup of the current run of
  \* the GestureController effect is still awaiting the model or the camera;
  \* how many setups of torn-down runs are still awaiting; how many loops
  \* such setups have started
  mounted, setupPending, staleSetups, staleLoops,
  \* frameLimit: the instant up to which frames are generated
  frameLimit,
  \* GrandTreeApp state
  sceneState, rotationSpeed, aiStatus, handPosition,
  photos, appIsLightboxOpen, appLightboxPhotoIndex, lightboxOpacity,
  \* Experience state and refs
  prevSceneState, pinchCooldownUntilRef, fireworkTrigger, isLightboxOpen,
  lightboxPhotoIndex, hasPinchedRef, fadeOutTimerRef, recentlyViewedPhotos,
  \* ParticleEffect state and refs
  isActive, particleBatchesRef, nextSpawnTime,
  \* the clock and the pending setTimeout callbacks
  now, timers,
  \* history of the classification frames, for the statements below:
  \* lastFrame is the last processed frame and what it did, run the
  \* unbroken run of equally labelled frames it belongs to
  lastFrame, run,
  \* sceneChangedAt holds the instant of the last change of the scene state
  \* (empty before the first); errorStatusLog is the sequence of the error
  \* messages handed to onStatus by the classification loop
  sceneChangedAt, errorStatusLog,
  \* history of the other handlers: lastRender is what the last frame
  \* callback of Experience read and applied; opened is, while the lightbox is
  \* open, the instant it opened, the opacities set since, and the camera
  \* position and the history the selection read (NotOpened while closed)
  \* selections counts the photo selections since the last frame callback
  \* of Experience that read pinch = false
  lastRender, opened, selections,
  \* the position of one entity of each animated population, and the chaos
  \* and target position the data of PhotoOrnaments holds for its entity
  currentPos, photoData

gestureVars == <<lastGestureRef, gestureStableCountRef, pinchStateRef,
                 pinchChangeStableCountRef, lastRuntimeErrorRef, requestRef>>
lifecycleVars == <<mounted, setupPending, staleSetups, staleLoops, frameLimit>>
appVars == <<sceneState, rotationSpeed, aiStatus, handPosition>>
sceneEffectVars == <<prevSceneState, pinchCooldownUntilRef, fireworkTrigger>>
lightboxVars == <<isLightboxOpen, lightboxPhotoIndex, hasPinchedRef, fadeOutTimerRef,
                  recentlyViewedPhotos, appIsLightboxOpen, appLightboxPhotoIndex,
                  lightboxOpacity>>
particleVars == <<isActive, particleBatchesRef, nextSpawnTime>>
historyVars == <<lastFrame, run, sceneChangedAt, errorStatusLog>>
renderHistoryVars == <<lastRender, opened, selections>>
vars == <<gestureVars, lifecycleVars, appVars, photos, currentPos, photoData,
          sceneEffectVars, lightboxVars, particleVars,
          now, timers, historyVars, renderHistoryVars>>

\* ------------------------------------------------------- ParticleEffect
\* createFirework (App.tsx 489-548): the fields the batch bookkeeping reads.
createFirework(isPhotoMode, timeToExplode, t) ==
  [startTime |-> t,
   lifetime |-> timeToExplode + (IF isPhotoMode THEN AmbientTailMs ELSE TransitionTailMs),
   photoMode |-> isPhotoMode]

\* The two effects of ParticleEffect (App.tsx 550-571), run in this order when
\* triggerTreeForm or isPhotoOpen changed.  p is the ParticleEffect state and
\* the pending timers; the result is that state after both effects.
TransitionEffect(p, triggerTreeForm, isPhotoOpen, tteT) ==
  IF triggerTreeForm /\ ~isPhotoOpen
  THEN [p EXCEPT !.isActive = TRUE,
                 !.batches = <<createFirework(FALSE, tteT, now)>>,
                 !.timers = @ \cup {[kind |-> "activity", due |-> now + ActiveWindowMs]}]
  ELSE p

\* Mutant of PhotoEffect: the reset of the trigger does not clear the batches.
PhotoEffect_KeepsOnReset(p, triggerTreeForm, isPhotoOpen, tteA) ==
  IF isPhotoOpen
  THEN [p EXCEPT !.isActive = TRUE,
                 !.nextSpawnTime = now,
                 !.batches = <<createFirework(TRUE, tteA, now)>>]
  ELSE p

PhotoEffect(p, triggerTreeForm, isPhotoOpen, tteA) ==
  IF isPhotoOpen
  THEN [p EXCEPT !.isActive = TRUE,
                 !.nextSpawnTime = now,
                 !.batches = <<createFirework(TRUE, tteA, now)>>]
  ELSE IF ~triggerTreeForm
       THEN [p EXCEPT !.isActive = FALSE, !.batches = <<>>]
       ELSE p

ParticleEffects(p, triggerTreeForm, isPhotoOpen, tteT, tteA) ==
  PhotoEffect(TransitionEffect(p, triggerTreeForm, isPhotoOpen, tteT),
              triggerTreeForm, isPhotoOpen, tteA)

ParticleState ==
  [isActive |-> isActive, batches |-> particleBatchesRef,
   nextSpawnTime |-> nextSpawnTime, timers |-> timers]

\* ---------------------------------------------------- GestureController
\* Mutant of StableCountAfter: the count is not reset when the label changes.
StableCountAfter_NoReset(name, last, count) == count + 1

\* Label stability (App.tsx 945-950).
StableCountAfter(name, last, count) ==
  IF name = last THEN count + 1 ELSE 0

\* Discrete gesture emission (App.tsx 952-954): the value handed to onGesture,
\* "" when nothing is handed over.
EmittedIntent(name, score, count) ==
  IF score > GestureScoreThreshold /\ count >= GestureStableThreshold
  THEN CASE name = "Open_Palm" -> "CHAOS"
         [] name = "Closed_Fist" -> "FORMED"
         [] OTHER -> ""
  ELSE ""

\* The rotation speed handed to onMove (App.tsx 961-962).
MoveSpeed(x) ==
  LET speed == (RotationCentre - x) * RotationGain
      abs == IF speed < 0 THEN -speed ELSE speed
  IN IF abs > RotationDeadZone THEN speed ELSE 0

\* Pinch detection (App.tsx 990-997).
OpennessOk(openness) == openness > OpennessMin /\ openness < OpennessMax
\* Mutant of GestureBlocksPinch: no label keeps a pinch from being read.
GestureBlocksPinch_Never(name) == FALSE

GestureBlocksPinch(name) == name = "Closed_Fist" \/ name = "Open_Palm"
\* Mutant of PinchingByDistance: one threshold, no hysteresis.
PinchingByDistance_OneThreshold(pinchState, distance) == distance < PinchDownThreshold

PinchingByDistance(pinchState, distance) ==
  IF pinchState THEN distance < PinchUpThreshold ELSE distance < PinchDownThreshold
ScoreOk(name, score) == IF name /= "" THEN score > PinchScoreThreshold ELSE TRUE
RawPinch(name, score, openness, distance, pinchState) ==
  /\ ~GestureBlocksPinch(name)
  /\ ScoreOk(name, score)
  /\ OpennessOk(openness)
  /\ PinchingByDistance(pinchState, distance)

\* Mutant of PinchAfter: a blocking label goes through the stable run like any
\* other frame that is no pinch.
PinchAfter_NoPriority(name, rawPinch, pinchState, count) ==
  IF rawPinch = pinchState THEN <<pinchState, 0>>
  ELSE IF count + 1 >= PinchStableThreshold THEN <<rawPinch, 0>>
  ELSE <<pinchState, count + 1>>

\* Mutant of PinchAfter: a change is committed on its first frame.
PinchAfter_CommitsAtOnce(name, rawPinch, pinchState, count) ==
  IF GestureBlocksPinch(name) THEN <<FALSE, 0>>
  ELSE <<rawPinch, 0>>

\* The pinch commit (App.tsx 999-1010): <<pinchStateRef, pinchChangeStableCountRef>>
\* after a frame that carries landmarks.
PinchAfter(name, rawPinch, pinchState, count) ==
  IF GestureBlocksPinch(name) THEN <<FALSE, 0>>
  ELSE IF rawPinch = pinchState THEN <<pinchState, 0>>
  ELSE IF count + 1 >= PinchStableThreshold THEN <<rawPinch, 0>>
  ELSE <<pinchState, count + 1>>

\* The effect of Experience on sceneState (App.tsx 722-730), run by the commit
\* of a changed scene state, followed by the effects of ParticleEffect when it
\* changed fireworkTrigger.
SceneStateCommit(newScene, tteT, tteA) ==
  LET fire == prevSceneState = "CHAOS" /\ newScene = "FORMED"
      trig == IF fire THEN TRUE ELSE fireworkTrigger
      p0 == [ParticleState EXCEPT
               !.timers = IF fire
                          THEN @ \cup {[kind |-> "triggerReset", due |-> now + FireworkTriggerMs]}
                          ELSE @]
      p1 == IF trig /= fireworkTrigger
            THEN ParticleEffects(p0, trig, isLightboxOpen, tteT, tteA)
            ELSE p0
  IN /\ sceneState' = newScene
     /\ prevSceneState' = newScene
     /\ pinchCooldownUntilRef' = now + PinchCooldownMs
     /\ fireworkTrigger' = trig
     /\ isActive' = p1.isActive
     /\ particleBatchesRef' = p1.batches
     /\ nextSpawnTime' = p1.nextSpawnTime
     /\ timers' = p1.timers

\* onGesture(intent) = setSceneState(intent): a commit only when the value changes.
OnGesture(intent, tteT, tteA) ==
  IF intent /= "" /\ intent /= sceneState
  THEN SceneStateCommit(intent, tteT, tteA)
  ELSE UNCHANGED <<sceneState, sceneEffectVars, particleVars, timers>>

\* Mutant of StabilityAfterNoHand: a frame without landmarks never resets.
StabilityAfterNoHand_Keeps(hasGesture, last, count) == <<last, count>>

\* The label stability <<lastGestureRef, gestureStableCountRef>> after a frame
\* without landmarks (App.tsx 1025-1029): reset when the frame carries no
\* gesture either, else what the label update of the frame (941-950) left.
StabilityAfterNoHand(hasGesture, last, count) ==
  IF hasGesture THEN <<last, count>> ELSE <<"", 0>>

\* The label of a frame, "" when it carries none.
FrameLabel(f) == IF f.kind = "ok" /\ f.g.has THEN f.g.name ELSE ""
FrameConfident(f) == f.kind = "ok" /\ f.g.has /\ f.g.score > GestureScoreThreshold

\* What the history keeps of a processed frame: its label and whether its score
\* passes the gesture threshold, its landmarks' distance and whether the label,
\* score and openness allow a pinch, what it handed to onGesture, and the scene
\* and pinch state it started from.
FrameRecord(f, intent) ==
  [kind |-> f.kind, label |-> FrameLabel(f), confident |-> FrameConfident(f),
   hand |-> f.h.has, dist |-> f.h.dist,
   pinchAllowed |-> /\ f.h.has
                    /\ ~GestureBlocksPinch(FrameLabel(f))
                    /\ ScoreOk(FrameLabel(f), f.g.score)
                    /\ OpennessOk(f.h.openness),
   emitted |-> intent, sceneBefore |-> sceneState, pinchBefore |-> pinchStateRef]

\* The unbroken run of equally labelled processed frames the frame f extends or
\* starts: its length (counted up to the stable run), whether every frame of it
\* passed the gesture threshold, the scene state it started from, how often the
\* scene state changed during it, and the label of the run before it.
RunAfter(f, intent) ==
  LET same == lastFrame.kind /= "none" /\ FrameLabel(f) = lastFrame.label
      changed == intent /= "" /\ intent /= sceneState
  IN IF same
     THEN [run EXCEPT
             !.len = IF @ > GestureStableThreshold THEN @ ELSE @ + 1,
             !.conf = @ /\ FrameConfident(f),
             !.changes = @ + (IF changed THEN 1 ELSE 0)]
     ELSE [len |-> 1, conf |-> FrameConfident(f), startScene |-> sceneState,
           changes |-> IF changed THEN 1 ELSE 0, prev |-> lastFrame.label]

\* A chain of predictWebcam animation frames is running: the one of the current
\* run of the effect, or one started by the setup of a torn-down run.  A frame
\* runs only while the video and canvas elements are mounted (App.tsx 924), and
\* the loop that ran it requests its next frame (1046): the loops stay as
\* they are.
LoopActive == requestRef \/ staleLoops > 0

\* predictWebcam on a frame that recognizeForVideo answers (App.tsx 926-1031).
PredictWebcamOk(f) ==
  /\ f \in OkFrames
  /\ mounted /\ LoopActive
  /\ now <= frameLimit
  /\ Cardinality(timers) <= MaxPendingTimers
  /\ LET name == IF f.g.has THEN f.g.name ELSE ""
         score == IF f.g.has THEN f.g.score ELSE 0
         last1 == IF f.g.has THEN name ELSE lastGestureRef
         count1 == IF f.g.has
                   THEN StableCountAfter(name, lastGestureRef, gestureStableCountRef)
                   ELSE gestureStableCountRef
         intent == IF f.g.has THEN EmittedIntent(name, score, count1) ELSE ""
         rawPinch == RawPinch(name, score, f.h.openness, f.h.dist, pinchStateRef)
         pinch == PinchAfter(name, rawPinch, pinchStateRef, pinchChangeStableCountRef)
     IN /\ count1 <= MaxStableCount
        /\ \E tteT \in TransitionExplodeTimes, tteA \in AmbientExplodeTimes :
             OnGesture(intent, tteT, tteA)
        /\ IF f.h.has
           THEN /\ rotationSpeed' = MoveSpeed(f.h.x)
                /\ pinchStateRef' = pinch[1]
                /\ pinchChangeStableCountRef' = pinch[2]
                /\ handPosition' = [visible |-> TRUE, gesture |-> name,
                                    isPinching |-> pinch[1]]
                /\ lastGestureRef' = last1
                /\ gestureStableCountRef' = count1
           ELSE /\ rotationSpeed' = 0
                /\ pinchStateRef' = FALSE
                /\ pinchChangeStableCountRef' = 0
                /\ handPosition' = [visible |-> FALSE, gesture |-> name,
                                    isPinching |-> FALSE]
                /\ lastGestureRef' = StabilityAfterNoHand(f.g.has, last1, count1)[1]
                /\ gestureStableCountRef' = StabilityAfterNoHand(f.g.has, last1, count1)[2]
        /\ lastFrame' = FrameRecord(f, intent)
        /\ run' = RunAfter(f, intent)
        /\ sceneChangedAt' = IF intent /= "" /\ intent /= sceneState
                             THEN {now} ELSE sceneChangedAt
  /\ UNCHANGED <<requestRef, lifecycleVars>>
  /\ UNCHANGED <<lastRuntimeErrorRef, aiStatus, photos, currentPos, photoData, lightboxVars, now,
                 errorStatusLog, renderHistoryVars>>

\* Mutant of PredictWebcamThrow: the exception leaves predictWebcam, which
\* neither resets anything nor requests the next animation frame.
PredictWebcamThrow_Escapes(f) ==
  /\ f \in ThrowFrames
  /\ mounted /\ LoopActive
  /\ now <= frameLimit
  /\ requestRef' = FALSE
  /\ UNCHANGED lifecycleVars
  /\ lastFrame' = FrameRecord(f, "")
  /\ run' = RunAfter(f, "")
  /\ UNCHANGED <<lastGestureRef, gestureStableCountRef, pinchStateRef,
                 pinchChangeStableCountRef, lastRuntimeErrorRef, appVars, photos,
                 currentPos, photoData, sceneEffectVars, lightboxVars, particleVars, now,
                 timers, sceneChangedAt, errorStatusLog, renderHistoryVars>>

\* predictWebcam on a frame on which the classifier throws (App.tsx 1032-1046):
\* the catch block, then the request of the next animation frame.
PredictWebcamThrow(f) ==
  /\ f \in ThrowFrames
  /\ mounted /\ LoopActive
  /\ now <= frameLimit
  /\ IF lastRuntimeErrorRef /= f.msg
     THEN /\ Len(errorStatusLog) < MaxStatusLog
          /\ lastRuntimeErrorRef' = f.msg
          /\ aiStatus' = <<"ERROR", f.msg>>
          /\ errorStatusLog' = Append(errorStatusLog, f.msg)
     ELSE UNCHANGED <<lastRuntimeErrorRef, aiStatus, errorStatusLog>>
  /\ rotationSpeed' = 0
  /\ lastGestureRef' = ""
  /\ gestureStableCountRef' = 0
  /\ pinchStateRef' = FALSE
  /\ pinchChangeStableCountRef' = 0
  /\ handPosition' = [visible |-> FALSE, gesture |-> "", isPinching |-> FALSE]
  /\ lastFrame' = FrameRecord(f, "")
  /\ run' = RunAfter(f, "")
  /\ UNCHANGED <<requestRef, lifecycleVars>>
  /\ UNCHANGED <<sceneState, photos, currentPos, photoData,
                 sceneEffectVars, lightboxVars, particleVars,
                 now, timers, sceneChangedAt, renderHistoryVars>>

\* predictWebcam while the video has no frame yet (App.tsx 926): only the next
\* animation frame is requested.
PredictWebcamNoVideo(f) ==
  /\ f \in NoVideoFrames
  /\ mounted /\ LoopActive
  /\ now <= frameLimit
  /\ UNCHANGED <<requestRef, lifecycleVars>>
  /\ UNCHANGED <<lastGestureRef, gestureStableCountRef, pinchStateRef,
                 pinchChangeStableCountRef, lastRuntimeErrorRef, appVars, photos,
                 currentPos, photoData, sceneEffectVars, lightboxVars, particleVars, now,
                 timers,
                 historyVars, renderHistoryVars>>

PredictWebcam(f) ==
  \/ PredictWebcamOk(f)
  \/ PredictWebcamThrow(f)
  \/ PredictWebcamNoVideo(f)

\* The effect of GestureController runs again because one of its dependencies
\* changed, for example debugMode (App.tsx 881-922, 1049-1051): the cleanup of
\* the previous run cancels the animation frame that run has requested, and
\* nothing else; a setup of it that is still awaiting goes on.  The new run
\* starts its own setup.
RerunEffect ==
  /\ mounted
  /\ staleSetups + staleLoops < MaxStaleRuns
  /\ requestRef' = FALSE
  /\ staleSetups' = staleSetups + (IF setupPending THEN 1 ELSE 0)
  /\ setupPending' = TRUE
  /\ aiStatus' = <<"DOWNLOADING AI...", "">>
  /\ UNCHANGED <<lastGestureRef, gestureStableCountRef, pinchStateRef,
                 pinchChangeStableCountRef, lastRuntimeErrorRef, mounted, staleLoops, frameLimit,
                 sceneState, rotationSpeed, handPosition, photos, currentPos, photoData,
                 sceneEffectVars, lightboxVars, particleVars, now, timers, historyVars,
                 renderHistoryVars>>

\* The setup of the current run stops awaiting (App.tsx 885-920): with the model
\* and the camera it reports AI READY and calls predictWebcam, which starts the
\* loop; when loading the model or opening the camera failed it reports the error.
SetupDone(ok) ==
  /\ mounted
  /\ setupPending
  /\ setupPending' = FALSE
  /\ requestRef' = ok
  /\ aiStatus' = IF ok THEN <<"AI READY: SHOW HAND", "">> ELSE <<"ERROR", "MODEL FAILED">>
  /\ UNCHANGED <<lastGestureRef, gestureStableCountRef, pinchStateRef,
                 pinchChangeStableCountRef, lastRuntimeErrorRef, mounted, staleSetups, frameLimit,
                 staleLoops, sceneState, rotationSpeed, handPosition, photos, currentPos,
                 photoData, sceneEffectVars, lightboxVars, particleVars, now, timers,
                 historyVars, renderHistoryVars>>

\* The setup of a torn-down run stops awaiting: it does what any setup does.
\* While the component is mounted the video element is there (App.tsx 899), so
\* it starts a loop of its own, whose animation frame no cleanup can cancel;
\* after the unmount it starts nothing and its status update is dropped.
StaleSetupDone(ok) ==
  /\ staleSetups > 0
  /\ staleSetups' = staleSetups - 1
  /\ staleLoops' = staleLoops + (IF ok /\ mounted THEN 1 ELSE 0)
  /\ aiStatus' = IF ~mounted THEN aiStatus
                 ELSE IF ok THEN <<"AI READY: SHOW HAND", "">>
                 ELSE <<"ERROR", "MODEL FAILED">>
  /\ UNCHANGED <<lastGestureRef, gestureStableCountRef, pinchStateRef,
                 pinchChangeStableCountRef, lastRuntimeErrorRef, requestRef, mounted, frameLimit,
                 setupPending, sceneState, rotationSpeed, handPosition, photos, currentPos,
                 photoData, sceneEffectVars, lightboxVars, particleVars, now, timers,
                 historyVars, renderHistoryVars>>

\* The application is torn down: the cleanup of GestureController cancels the
\* animation frame of the current run (App.tsx 1050); Experience and
\* ParticleEffect have no cleanup, their timers stay pending (556, 726, 805,
\* 818); the frame callbacks of the scene are unsubscribed.
Unmount ==
  /\ mounted
  /\ mounted' = FALSE
  /\ requestRef' = FALSE
  /\ staleSetups' = staleSetups + (IF setupPending THEN 1 ELSE 0)
  /\ setupPending' = FALSE
  /\ UNCHANGED <<lastGestureRef, gestureStableCountRef, pinchStateRef,
                 pinchChangeStableCountRef, lastRuntimeErrorRef, staleLoops, frameLimit, appVars,
                 photos, currentPos, photoData, sceneEffectVars, lightboxVars,
                 particleVars, now, timers, historyVars, renderHistoryVars>>

\* The animation frame of a loop started by a torn-down run, after the unmount:
\* predictWebcam finds no video element (App.tsx 924) and requests no frame.
StaleLoopStops ==
  /\ ~mounted
  /\ staleLoops > 0
  /\ staleLoops' = staleLoops - 1
  /\ UNCHANGED <<gestureVars, mounted, setupPending, staleSetups, frameLimit, appVars, photos,
                 currentPos, photoData, sceneEffectVars, lightboxVars, particleVars, now,
                 timers, historyVars, renderHistoryVars>>

\* ------------------------------------------------------------ Experience
Min(a, b) == IF a < b THEN a ELSE b
Abs(a) == IF a < 0 THEN -a ELSE a
Last(q) == q[Len(q)]
Range(q) == {q[i] : i \in 1..Len(q)}
SeqContains(q, x) == \E i \in 1..Len(q) : q[i] = x

\* Mutant of PhotoGroupMounted: the group is there without photos.
PhotoGroupMounted_Always == TRUE

\* photoGroupRef.current: PhotoOrnaments renders its group only for a non-empty
\* photo list (App.tsx 220, 304); the children are the ornaments 0..count-1.
PhotoGroupMounted == photos > 0
Ornaments == 0..(NumOrnaments - 1)

\* Mutant of EffectiveRotationSpeed: the open lightbox does not suppress it.
EffectiveRotationSpeed_NotSuppressed(lightboxOpen, speed) == speed

\* Rotation control (App.tsx 734).
EffectiveRotationSpeed(lightboxOpen, speed) == IF lightboxOpen THEN 0 ELSE speed

\* photoDistances (App.tsx 744-750): one entry per child of the photo group.
OrnamentDistance(cam, i) == Abs(cam - i * OrnamentSpacing)
JsRemainder(i, n) == IF n = 0 THEN NaN ELSE i % n
PhotoEntry(cam, i) ==
  [index |-> i, distance |-> OrnamentDistance(cam, i),
   textureIndex |-> JsRemainder(i, photos)]

\* photoDistances.sort((a, b) => a.distance - b.distance) (App.tsx 753): the
\* sort is stable, so entries at the same distance keep their index order.
RECURSIVE SortedByDistance(_)
SortedByDistance(entries) ==
  IF entries = {} THEN <<>>
  ELSE LET first == CHOOSE e \in entries :
                      \A o \in entries :
                        \/ e.distance < o.distance
                        \/ e.distance = o.distance /\ e.index <= o.index
       IN <<first>> \o SortedByDistance(entries \ {first})

\* nearestPhotos (App.tsx 754).
NearestPhotos(cam) ==
  LET sorted == SortedByDistance({PhotoEntry(cam, i) : i \in Ornaments})
  IN SubSeq(sorted, 1, Min(NearestCount, Len(sorted)))

\* Mutant of CandidatePhotos: the history is not consulted.
CandidatePhotos_NoFilter(nearest) == nearest

\* candidatePhotos (App.tsx 757-764).
NotRecentlyViewed(entry) == ~SeqContains(recentlyViewedPhotos, entry.textureIndex)
CandidatePhotos(nearest) ==
  LET fresh == SelectSeq(nearest, NotRecentlyViewed)
  IN IF Len(fresh) = 0 THEN nearest ELSE fresh

\* The weighted draw (App.tsx 767-782).  Math.random() * totalWeight is a real
\* in [0, totalWeight); r2 is twice that value, so that the model draws the
\* bounds of the weight intervals and a point inside each.
TotalWeight(n) == (n * (n + 1)) \div 2
RandomValues(n) == 0..(2 * TotalWeight(n) - 1)
\* Mutant of PickFrom: a draw on the bound of two weight intervals goes to the
\* farther candidate.
RECURSIVE PickFrom_Strict(_, _, _)
PickFrom_Strict(candidates, i, r2) ==
  IF i > Len(candidates) THEN candidates[1]
  ELSE LET left == r2 - 2 * (Len(candidates) - (i - 1))
       IN IF left < 0 THEN candidates[i] ELSE PickFrom_Strict(candidates, i + 1, left)

RECURSIVE PickFrom(_, _, _)
PickFrom(candidates, i, r2) ==
  IF i > Len(candidates) THEN candidates[1]
  ELSE LET left == r2 - 2 * (Len(candidates) - (i - 1))
       IN IF left <= 0 THEN candidates[i] ELSE PickFrom(candidates, i + 1, left)
SelectedPhoto(candidates, r2) == PickFrom(candidates, 1, r2)

\* Mutant of HistoryAfter: the oldest entry is never removed.
HistoryAfter_NoShift(history, textureIndex) == Append(history, textureIndex)

\* The recently-viewed history (App.tsx 787-790).
HistoryAfter(history, textureIndex) ==
  LET pushed == Append(history, textureIndex)
  IN IF Len(pushed) > MAX_RECENT_HISTORY THEN Tail(pushed) ELSE pushed

\* Mutant of TimersAfterOpen: no fade-in timer is started.
TimersAfterOpen_NoFadeIn(ts, fadeOut) == ts \ {[kind |-> "close", due |-> fadeOut]}

\* clearTimeout(fadeOutTimerRef.current) and the fade-in setTimeout
\* (App.tsx 799-807).
TimersAfterOpen(ts, fadeOut) ==
  (ts \ {[kind |-> "close", due |-> fadeOut]})
    \cup {[kind |-> "fadeIn", due |-> now + FadeInMs]}

\* Mutant of StartsClose: a pending close timer does not stop a new one.
StartsClose_IgnoresPending(lightboxOpen, fadeOut) == lightboxOpen

\* The release test of the frame callback (App.tsx 813).
StartsClose(lightboxOpen, fadeOut) == lightboxOpen /\ fadeOut = NoTimer

SetParticleState(p) ==
  /\ isActive' = p.isActive
  /\ particleBatchesRef' = p.batches
  /\ nextSpawnTime' = p.nextSpawnTime
  /\ timers' = p.timers

NotOpened == [at |-> 0, log |-> <<>>, cam |-> 0, before |-> <<>>]

\* Mutant of OpenLightbox: GrandTreeApp is not told of the open.
OpenLightbox_AppNotTold(cam, r2, tteT, tteA) ==
  LET nearest == NearestPhotos(cam)
      candidates == CandidatePhotos(nearest)
      textureIndex == SelectedPhoto(candidates, r2).textureIndex
      p0 == [ParticleState EXCEPT !.timers = TimersAfterOpen(@, fadeOutTimerRef)]
  IN /\ r2 \in RandomValues(Len(candidates))
     /\ recentlyViewedPhotos' = HistoryAfter(recentlyViewedPhotos, textureIndex)
     /\ isLightboxOpen' = TRUE
     /\ lightboxPhotoIndex' = textureIndex
     /\ lightboxOpacity' = 0
     /\ UNCHANGED <<appIsLightboxOpen, appLightboxPhotoIndex>>
     /\ hasPinchedRef' = TRUE
     /\ fadeOutTimerRef' = NoTimer
     /\ SetParticleState(ParticleEffects(p0, fireworkTrigger, TRUE, tteT, tteA))
     /\ opened' = [at |-> now, log |-> <<0>>, cam |-> cam,
                   before |-> recentlyViewedPhotos]
     /\ selections' = selections + 1

\* The open branch of the frame callback (App.tsx 742-808), with the commit of
\* isLightboxOpen = true (the effects of ParticleEffect).
OpenLightbox(cam, r2, tteT, tteA) ==
  LET nearest == NearestPhotos(cam)
      candidates == CandidatePhotos(nearest)
      textureIndex == SelectedPhoto(candidates, r2).textureIndex
      p0 == [ParticleState EXCEPT !.timers = TimersAfterOpen(@, fadeOutTimerRef)]
  IN /\ r2 \in RandomValues(Len(candidates))
     /\ recentlyViewedPhotos' = HistoryAfter(recentlyViewedPhotos, textureIndex)
     /\ isLightboxOpen' = TRUE
     /\ lightboxPhotoIndex' = textureIndex
     /\ lightboxOpacity' = 0
     /\ appIsLightboxOpen' = TRUE
     /\ appLightboxPhotoIndex' = textureIndex
     /\ hasPinchedRef' = TRUE
     /\ fadeOutTimerRef' = NoTimer
     /\ SetParticleState(ParticleEffects(p0, fireworkTrigger, TRUE, tteT, tteA))
     /\ opened' = [at |-> now, log |-> <<0>>, cam |-> cam,
                   before |-> recentlyViewedPhotos]
     /\ selections' = selections + 1

\* Mutant of CooldownElapsed: the cooldown is not looked at.
CooldownElapsed_Ignored(t, until) == TRUE

\* The cooldown test of the open condition (App.tsx 741).
CooldownElapsed(t, until) == t >= until

\* Mutant of MayOpen: a held pinch opens on every frame.
MayOpen_EveryFrame(pinch, lightboxOpen, hasPinched) == pinch

\* Mutant of MayOpen: the open lightbox does not hold a pinch back.
MayOpen_IgnoresOpenFlag(pinch, lightboxOpen, hasPinched) == pinch /\ ~hasPinched

\* The pinch part of the open condition (App.tsx 741): a pinch is read, the
\* lightbox is closed and this pinch has not opened one yet.
MayOpen(pinch, lightboxOpen, hasPinched) == pinch /\ ~lightboxOpen /\ ~hasPinched

\* The frame callback of Experience (App.tsx 732-827).
ExperienceFrame ==
  /\ mounted
  /\ now <= frameLimit
  /\ LET pinch == handPosition.isPinching
     IN IF /\ CooldownElapsed(now, pinchCooldownUntilRef)
           /\ MayOpen(pinch, isLightboxOpen, hasPinchedRef)
           /\ PhotoGroupMounted
        THEN \E cam \in CameraPositions, r2 \in RandomValues(NearestCount),
                tteT \in TransitionExplodeTimes, tteA \in AmbientExplodeTimes :
               OpenLightbox(cam, r2, tteT, tteA)
        ELSE IF ~pinch
        THEN /\ IF StartsClose(isLightboxOpen, fadeOutTimerRef)
                THEN /\ lightboxOpacity' = 0
                     /\ fadeOutTimerRef' = now + FadeOutMs
                     /\ timers' = timers \cup {[kind |-> "close", due |-> now + FadeOutMs]}
                     /\ opened' = [opened EXCEPT !.log = Append(@, 0)]
                ELSE UNCHANGED <<lightboxOpacity, fadeOutTimerRef, timers, opened>>
             /\ hasPinchedRef' = FALSE
             /\ selections' = 0
             /\ UNCHANGED <<isLightboxOpen, lightboxPhotoIndex, recentlyViewedPhotos,
                            appIsLightboxOpen, appLightboxPhotoIndex, particleVars>>
        ELSE UNCHANGED <<lightboxVars, particleVars, timers, opened, selections>>
  /\ lastRender' = [open |-> isLightboxOpen, speed |-> rotationSpeed,
                    delta |-> EffectiveRotationSpeed(isLightboxOpen, rotationSpeed)]
  /\ UNCHANGED <<gestureVars, lifecycleVars, appVars, photos, currentPos, photoData,
                 sceneEffectVars, now, historyVars>>

\* A timer callback that runs after the application was torn down (no timer is
\* cleared on teardown): React drops the state updates of unmounted
\* components, the write to fadeOutTimerRef of the close timer (App.tsx 822)
\* takes place.
TimerAfterTeardown(tm) ==
  /\ timers' = timers \ {tm}
  /\ fadeOutTimerRef' = IF tm.kind = "close" THEN NoTimer ELSE fadeOutTimerRef
  /\ UNCHANGED <<gestureVars, lifecycleVars, appVars, photos, currentPos, photoData,
                 sceneEffectVars, isLightboxOpen, lightboxPhotoIndex, hasPinchedRef,
                 recentlyViewedPhotos, appIsLightboxOpen, appLightboxPhotoIndex,
                 lightboxOpacity, particleVars, now, historyVars, renderHistoryVars>>

\* The fade-in timer of an open (App.tsx 805-807).
FadeInTimer ==
  \E tm \in timers :
    /\ tm.kind = "fadeIn" /\ tm.due <= now
    /\ IF ~mounted
       THEN TimerAfterTeardown(tm)
       ELSE /\ timers' = timers \ {tm}
            /\ lightboxOpacity' = 1
            /\ opened' = IF isLightboxOpen THEN [opened EXCEPT !.log = Append(@, 1)] ELSE opened
            /\ UNCHANGED <<gestureVars, lifecycleVars, appVars, photos, currentPos, photoData,
                           sceneEffectVars, isLightboxOpen,
                           lightboxPhotoIndex, hasPinchedRef, fadeOutTimerRef,
                           recentlyViewedPhotos, appIsLightboxOpen, appLightboxPhotoIndex,
                           particleVars, now, historyVars, lastRender, selections>>

\* The close timer of a release (App.tsx 818-823), with the commit of
\* isLightboxOpen = false (the effects of ParticleEffect).
CloseTimer ==
  \E tm \in timers :
    /\ tm.kind = "close" /\ tm.due <= now
    /\ IF ~mounted
       THEN TimerAfterTeardown(tm)
       ELSE /\ isLightboxOpen' = FALSE
            /\ lightboxPhotoIndex' = NoPhoto
            /\ appIsLightboxOpen' = FALSE
            /\ appLightboxPhotoIndex' = NoPhoto
            /\ fadeOutTimerRef' = NoTimer
            /\ LET p0 == [ParticleState EXCEPT !.timers = @ \ {tm}]
               IN \E tteT \in TransitionExplodeTimes, tteA \in AmbientExplodeTimes :
                    SetParticleState(IF isLightboxOpen
                                     THEN ParticleEffects(p0, fireworkTrigger, FALSE, tteT, tteA)
                                     ELSE p0)
            /\ opened' = NotOpened
            /\ UNCHANGED <<gestureVars, lifecycleVars, appVars, photos, currentPos, photoData,
                           sceneEffectVars, hasPinchedRef,
                           recentlyViewedPhotos, lightboxOpacity, now, historyVars,
                           lastRender, selections>>

\* The timer that resets fireworkTrigger (App.tsx 726), with the commit of the
\* changed trigger (the effects of ParticleEffect).
TriggerResetTimer ==
  \E tm \in timers :
    /\ tm.kind = "triggerReset" /\ tm.due <= now
    /\ IF ~mounted
       THEN TimerAfterTeardown(tm)
       ELSE /\ fireworkTrigger' = FALSE
            /\ LET p0 == [ParticleState EXCEPT !.timers = @ \ {tm}]
               IN \E tteT \in TransitionExplodeTimes, tteA \in AmbientExplodeTimes :
                    SetParticleState(IF fireworkTrigger
                                     THEN ParticleEffects(p0, FALSE, isLightboxOpen, tteT, tteA)
                                     ELSE p0)
            /\ UNCHANGED <<gestureVars, lifecycleVars, appVars, photos, currentPos, photoData,
                           prevSceneState, pinchCooldownUntilRef,
                           lightboxVars, now, historyVars, renderHistoryVars>>

\* The timer that ends the active window of a transition (App.tsx 556).
ActivityTimer ==
  \E tm \in timers :
    /\ tm.kind = "activity" /\ tm.due <= now
    /\ IF ~mounted
       THEN TimerAfterTeardown(tm)
       ELSE /\ timers' = timers \ {tm}
            /\ isActive' = FALSE
            /\ UNCHANGED <<gestureVars, lifecycleVars, appVars, photos, currentPos, photoData,
                           sceneEffectVars, lightboxVars,
                           particleBatchesRef, nextSpawnTime, now, historyVars,
                           renderHistoryVars>>

\* The frame callback of ParticleEffect (App.tsx 573-587); it returns at once
\* while isActive is false (the points object is then not rendered either).
Alive(batch) == now - batch.startTime < batch.lifetime
Spawns == isLightboxOpen /\ now >= nextSpawnTime /\ Len(particleBatchesRef) < MaxAmbientBatches
ParticleFrame ==
  /\ mounted
  /\ now <= frameLimit
  /\ isActive
  /\ \E tteA \in AmbientExplodeTimes :
       LET spawned == IF Spawns
                      THEN Append(particleBatchesRef, createFirework(TRUE, tteA, now))
                      ELSE particleBatchesRef
       IN particleBatchesRef' = SelectSeq(spawned, Alive)
  /\ nextSpawnTime' = IF Spawns THEN now + SpawnIntervalMs ELSE nextSpawnTime
  /\ UNCHANGED <<gestureVars, lifecycleVars, appVars, photos, currentPos, photoData,
                 sceneEffectVars, lightboxVars, isActive,
                 now, timers, historyVars, renderHistoryVars>>

\* ------------------------------------------------- population animators
\* Vector3.lerp(target, alpha) on one axis: position += (target - position) * alpha,
\* alpha in millionths.  The model follows it in exact arithmetic: Exact says
\* that the step is a whole number of position units.
Lerp(position, target, alpha) == position + ((target - position) * alpha) \div 1000000
Exact(position, target, alpha) == ((target - position) * alpha) % 1000000 = 0

\* The target of the frame (App.tsx 281, 406, 452).
ActiveTarget(population, state) ==
  LET data == IF population = "photo" THEN photoData ELSE EntityPositions
  IN IF state = "FORMED" THEN data.target ELSE data.chaos

\* The lerp factors of a frame of delta ms (App.tsx 283, 408, 454).
PhotoAlpha(state, weight, delta) ==
  delta * (IF state = "FORMED" THEN (PhotoFormedRate * weight) \div 1000 ELSE PhotoChaosRate)
ElementAlpha(delta) == delta * ElementRate
LightAlpha(delta) == delta * LightRate

Animate(population, alpha) ==
  LET after == Lerp(currentPos[population], ActiveTarget(population, sceneState), alpha)
  IN /\ mounted
     /\ Exact(currentPos[population], ActiveTarget(population, sceneState), alpha)
     /\ after \in (-MaxPos)..MaxPos
     /\ currentPos' = [currentPos EXCEPT ![population] = after]
     /\ UNCHANGED <<gestureVars, lifecycleVars, appVars, photos, photoData, sceneEffectVars, lightboxVars,
                    particleVars, now, timers, historyVars, renderHistoryVars>>

\* The frame callback of PhotoOrnaments (App.tsx 274-284); without photos the
\* group is not rendered and the callback returns at once.
PhotoOrnamentsFrame(delta) ==
  /\ PhotoGroupMounted
  /\ \E weight \in Weights : Animate("photo", PhotoAlpha(sceneState, weight, delta))

\* The frame callback of ChristmasElements (App.tsx 401-409).
ChristmasElementsFrame(delta) == Animate("element", ElementAlpha(delta))

\* The frame callback of FairyLights (App.tsx 447-456).
FairyLightsFrame(delta) == Animate("light", LightAlpha(delta))

\* setPhotos (App.tsx 1676-1689): a fetch answers with a list of n photos.  The
\* new textures make PhotoOrnaments compute its data again (App.tsx 231-272):
\* data is the chaos and target position its Math.random() calls produce, and
\* the entity starts at the chaos position.
SetPhotos(n, data) ==
  /\ mounted
  /\ now <= frameLimit
  /\ n /= photos
  /\ photos' = n
  /\ photoData' = data
  /\ currentPos' = [currentPos EXCEPT !.photo = data.chaos]
  /\ UNCHANGED <<gestureVars, lifecycleVars, appVars, sceneEffectVars, lightboxVars, particleVars,
                 now, timers, historyVars, renderHistoryVars>>

\* ------------------------------------------------------------- the clock
Dues == {tm.due : tm \in timers}
NextDue == CHOOSE d \in Dues : \A e \in Dues : d <= e
\* Time passes to the next due instant, to the end of the pinch cooldown, or to
\* the next instant of the frame grid; never past a due instant, and past
\* frameLimit only to the next one.
TickTargets ==
  {((now \div d) + 1) * d : d \in Steps}
    \cup (IF Dues = {} THEN {} ELSE {NextDue})
    \cup {pinchCooldownUntilRef}
    \cup (IF isLightboxOpen /\ isActive THEN {nextSpawnTime} ELSE {})
Tick ==
  \E t \in TickTargets :
    /\ t > now
    /\ Dues /= {} => t <= NextDue
    /\ t <= frameLimit \/ (Dues /= {} /\ t = NextDue)
    /\ now' = t
    /\ UNCHANGED <<gestureVars, lifecycleVars, appVars, photos, currentPos, photoData,
                   sceneEffectVars, lightboxVars,
                   particleVars, timers, historyVars, renderHistoryVars>>

\* ------------------------------------------------------------ the system
NoRender == [open |-> FALSE, speed |-> 0, delta |-> 0]

NoFrame == [kind |-> "none", label |-> "", confident |-> FALSE, hand |-> FALSE,
            dist |-> 0, pinchAllowed |-> FALSE, emitted |-> "",
            sceneBefore |-> "CHAOS", pinchBefore |-> FALSE]

InitRefs ==
  /\ lastGestureRef = ""
  /\ gestureStableCountRef = 0
  /\ pinchStateRef = FALSE
  /\ pinchChangeStableCountRef = 0
  /\ lastRuntimeErrorRef = ""
  /\ sceneState = "CHAOS"
  /\ rotationSpeed = 0
  /\ aiStatus = <<"AI READY: SHOW HAND", "">>
  /\ handPosition = [visible |-> FALSE, gesture |-> "", isPinching |-> FALSE]
  /\ prevSceneState = "CHAOS"
  /\ fireworkTrigger = FALSE
  /\ isLightboxOpen = FALSE
  /\ appIsLightboxOpen = FALSE
  /\ appLightboxPhotoIndex = NoPhoto
  /\ lightboxOpacity = 1
  /\ lightboxPhotoIndex = NoPhoto
  /\ hasPinchedRef = FALSE
  /\ fadeOutTimerRef = NoTimer
  /\ lastRender = NoRender
  /\ opened = NotOpened
  /\ isActive = FALSE
  /\ particleBatchesRef = <<>>
  /\ nextSpawnTime = 0
  /\ now = 0
  /\ timers = {}
  /\ currentPos = [population \in Populations |-> EntityPositions.chaos]
  /\ photoData = EntityPositions
  /\ lastFrame = NoFrame
  /\ requestRef = TRUE
  /\ mounted = TRUE
  /\ setupPending = FALSE
  /\ staleSetups = 0
  /\ staleLoops = 0
  /\ sceneChangedAt = {}
  /\ errorStatusLog = <<>>
  /\ selections = 0
  /\ run = [len |-> 0, conf |-> FALSE, startScene |-> "CHAOS", changes |-> 0,
            prev |-> ""]

\* The mount effect of Experience starts the pinch cooldown (App.tsx 722-730).
InitOther ==
  /\ InitRefs
  /\ frameLimit = MaxTime
  /\ pinchCooldownUntilRef = PinchCooldownMs

\* The application after mount (App.tsx 1651-1664, 712-720, 875-879, 486-487):
\* no photo fetched yet, nothing viewed.
Init ==
  /\ photos = 0
  /\ recentlyViewedPhotos = <<>>
  /\ InitOther

\* The classification loop alone, on frames that exercise the labels: every
\* gesture the classifier can answer, with no hand, an open hand or a pinching hand.
LabelFrames ==
  OkFrames_(GestureInputs, {NoHand, Hand(43, 98, 180), Hand(44, 50, 180)})
    \cup ThrowFrames \cup NoVideoFrames
GestureNext == \E f \in LabelFrames : PredictWebcam(f)
GestureSpec == Init /\ [][GestureNext]_vars

\* The classification loop alone, on frames that exercise the pinch: every hand
\* the landmarks can describe, with no label, a blocking label or another label.
PinchFrames ==
  OkFrames_({NoGesture, Gesture("Victory", 50), Gesture("Victory", 90),
             Gesture("Closed_Fist", 90)},
            {h \in HandInputs : h.x /= 44})
    \cup ThrowFrames \cup NoVideoFrames
PinchNext == \E f \in PinchFrames : PredictWebcam(f)
PinchSpec == Init /\ [][PinchNext]_vars

PinchingHand == [kind |-> "ok", g |-> NoGesture, h |-> Hand(43, 50, 180), msg |-> ""]
OpenHand == [kind |-> "ok", g |-> NoGesture, h |-> Hand(44, 98, 180), msg |-> ""]
NoHandFrame == [kind |-> "ok", g |-> NoGesture, h |-> NoHand, msg |-> ""]
FistFrame == [kind |-> "ok", g |-> Gesture("Closed_Fist", 90), h |-> NoHand, msg |-> ""]
PalmFrame == [kind |-> "ok", g |-> Gesture("Open_Palm", 90), h |-> NoHand, msg |-> ""]

\* The lightbox: the classification loop on a pinching hand, an open hand and
\* no hand (no label, so the scene stays as it is), the frame callback of
\* Experience, the photo list, the lightbox timers and the clock.
LightboxFrames == {PinchingHand, OpenHand, NoHandFrame}
LightboxNext ==
  \/ \E f \in LightboxFrames : PredictWebcamOk(f)
  \/ ExperienceFrame
  \/ FadeInTimer
  \/ CloseTimer
  \/ \E n \in PhotoCounts : SetPhotos(n, EntityPositions)
  \/ Tick
LightboxSpec == Init /\ [][LightboxNext]_vars

\* The same with fairness: the clock advances and a due timer fires.
LightboxLive ==
  /\ LightboxSpec
  /\ WF_vars(Tick)
  /\ WF_vars(FadeInTimer)
  /\ WF_vars(CloseTimer)

\* The whole application: scene changes by fist and palm, the lightbox by a
\* pinching hand and no hand, both frame callbacks, every timer and the clock.
AppFrames == {PinchingHand, NoHandFrame, FistFrame, PalmFrame}
AppNext ==
  \/ \E f \in AppFrames : PredictWebcamOk(f)
  \/ ExperienceFrame
  \/ ParticleFrame
  \/ FadeInTimer
  \/ CloseTimer
  \/ TriggerResetTimer
  \/ ActivityTimer
  \/ \E n \in PhotoCounts : SetPhotos(n, EntityPositions)
  \/ Tick
AppSpec == Init /\ [][AppNext]_vars

\* The selection on every history and photo list: the application as it is
\* after earlier opens have left a history, the photo list already fetched.
RECURSIVE Ascending(_)
Ascending(S) ==
  IF S = {} THEN <<>>
  ELSE LET m == CHOOSE x \in S : \A y \in S : x <= y
       IN <<m>> \o Ascending(S \ {m})
SelectionPhotoCounts == {3, NumOrnaments}
SelectionInit ==
  \E n \in SelectionPhotoCounts, viewed \in SUBSET Ornaments :
    /\ viewed \subseteq 0..(n - 1)
    /\ photos = n
    /\ recentlyViewedPhotos = Ascending(viewed)
    /\ InitOther
SelectionNext ==
  \/ \E f \in {PinchingHand, NoHandFrame} : PredictWebcamOk(f)
  \/ ExperienceFrame
  \/ FadeInTimer
  \/ CloseTimer
  \/ Tick
SelectionSpec == SelectionInit /\ [][SelectionNext]_vars

\* The lightbox over several opens: the application as it is once the cooldown
\* of the mount has elapsed and the photo list has arrived, instants counted
\* from that moment, so that a close and the open after it fall inside the
\* instants at which frames are generated.
ReopenPhotoCounts == {2}
ReopenInit ==
  /\ photos \in ReopenPhotoCounts
  /\ recentlyViewedPhotos = <<>>
  /\ InitRefs
  /\ frameLimit = MaxTime
  /\ pinchCooldownUntilRef = now
ReopenNext ==
  \/ \E f \in {PinchingHand, NoHandFrame} : PredictWebcamOk(f)
  \/ ExperienceFrame
  \/ FadeInTimer
  \/ CloseTimer
  \/ Tick
ReopenSpec == ReopenInit /\ [][ReopenNext]_vars

\* The same with fairness: the clock advances and a due timer fires.
ReopenLive ==
  /\ ReopenSpec
  /\ WF_vars(Tick)
  /\ WF_vars(FadeInTimer)
  /\ WF_vars(CloseTimer)

\* The teardown: the application with one scene change and the lightbox, torn
\* down at any moment; afterwards the callbacks that are still pending run.
TeardownNext ==
  \/ \E f \in {PinchingHand, NoHandFrame, FistFrame} : PredictWebcamOk(f)
  \/ ExperienceFrame
  \/ ParticleFrame
  \/ FadeInTimer
  \/ CloseTimer
  \/ TriggerResetTimer
  \/ ActivityTimer
  \/ \E n \in PhotoCounts : SetPhotos(n, EntityPositions)
  \/ Tick
  \/ Unmount
TeardownSpec == Init /\ [][TeardownNext]_vars

\* The classification loop over the runs of the GestureController effect: the
\* effect runs again, setups end in any order, the component is unmounted.
LoopFrames == {PinchingHand, FistFrame, NoHandFrame}
LoopNext ==
  \/ \E f \in LoopFrames : PredictWebcamOk(f)
  \/ RerunEffect
  \/ \E ok \in BOOLEAN : SetupDone(ok)
  \/ \E ok \in BOOLEAN : StaleSetupDone(ok)
  \/ Unmount
  \/ StaleLoopStops
LoopSpec == Init /\ [][LoopNext]_vars

\* The ambient fireworks: the application once the cooldown of the mount has
\* elapsed and the photo list has arrived; a pinch opens the lightbox and is
\* held, and the frame callback of ParticleEffect runs at the spawn instants
\* for the lifetime of a batch.
AmbientInit ==
  /\ photos \in PhotoCounts
  /\ recentlyViewedPhotos = <<>>
  /\ InitRefs
  /\ frameLimit = MaxAmbientTime
  /\ pinchCooldownUntilRef = now
AmbientNext ==
  \/ PredictWebcamOk(PinchingHand)
  \/ ExperienceFrame
  \/ ParticleFrame
  \/ FadeInTimer
  \/ Tick
AmbientSpec == AmbientInit /\ [][AmbientNext]_vars

\* The recently-viewed history: the application with two photos after the
\* lightbox has been opened and closed n times, instants counted from the last
\* close.  The histories are those of opens that showed the two photos in
\* turn: the second selection is the photo not yet viewed, and from then on
\* both photos are in the history, so that every nearest photo is a candidate.
HistoryPhotoCounts == {2}
EarlierOpens == {0, MAX_RECENT_HISTORY - 1, MAX_RECENT_HISTORY}
InTurn(first, n) == [i \in 1..n |-> (first + i - 1) % 2]
HistoryInit ==
  \E first \in 0..1, n \in EarlierOpens :
    /\ photos \in HistoryPhotoCounts
    /\ recentlyViewedPhotos = InTurn(first, n)
    /\ InitRefs
    /\ frameLimit = MaxTime
    /\ pinchCooldownUntilRef = now
HistorySpec == HistoryInit /\ [][ReopenNext]_vars

\* The population animators: the scene changes by fist and palm, the photo list
\* arrives, and every frame callback runs with every frame delta.
AnimNext ==
  \/ \E f \in {FistFrame, PalmFrame} : PredictWebcamOk(f)
  \/ \E n \in PhotoCounts : SetPhotos(n, EntityPositions)
  \/ \E delta \in Deltas : PhotoOrnamentsFrame(delta)
  \/ \E delta \in Deltas : ChristmasElementsFrame(delta)
  \/ \E delta \in Deltas : FairyLightsFrame(delta)
AnimSpec == Init /\ [][AnimNext]_vars

\* The layout of PhotoOrnaments: photo lists of several lengths arrive one
\* after the other (fetchPhotos at mount and after every update of the photo
\* manager, App.tsx 1693-1695, 1797), each with every layout the random
\* numbers can produce; the scene changes and the ornaments are animated.
LayoutPhotoCounts == {1, 2}
LayoutNext ==
  \/ \E f \in {FistFrame, PalmFrame} : PredictWebcamOk(f)
  \/ \E n \in LayoutPhotoCounts, data \in Layouts : SetPhotos(n, data)
  \/ \E delta \in Deltas : PhotoOrnamentsFrame(delta)
LayoutSpec == Init /\ [][LayoutNext]_vars

\* ------------------------------------------------------------ statements
SceneOf(label) == IF label = "Open_Palm" THEN "CHAOS" ELSE "FORMED"
SceneLabels == {"Open_Palm", "Closed_Fist"}

\* C1 (flicker): a processed frame labelled Closed_Fist that follows an
\* Open_Palm frame (or the reverse) is the first of its run and leaves the scene
\* state as it found it.
C1_Flicker ==
  (/\ lastFrame.label \in SceneLabels
   /\ run.prev \in SceneLabels
   /\ run.len = 1)
  => sceneState = lastFrame.sceneBefore

\* C1 (exactly once): once a run of one scene label has reached the stable run
\* length with every frame above the gesture threshold, the scene state is the
\* label's state, and it changed during the run exactly once when the run
\* started from the other state (never when it started from the label's
\* state), however long the run goes on.
C1_Once ==
  (/\ lastFrame.label \in SceneLabels
   /\ run.len > GestureStableThreshold
   /\ run.conf)
  => /\ sceneState = SceneOf(lastFrame.label)
     /\ run.changes = IF run.startScene = SceneOf(lastFrame.label) THEN 0 ELSE 1

\* C1: a one-frame flicker of the other scene label never changes the scene
\* state, and a stable run of the new label changes it exactly once.
C1_Debounce == C1_Flicker /\ C1_Once

\* C1 witness: a stable run of Closed_Fist after Open_Palm frames has changed the
\* scene state from CHAOS to FORMED once and has gone on past the stable length.
C1_Witness ==
  /\ lastFrame.label = "Closed_Fist"
  /\ run.prev = "Open_Palm"
  /\ run.len > GestureStableThreshold
  /\ run.conf
  /\ gestureStableCountRef > GestureStableThreshold
  /\ run.startScene = "CHAOS"
  /\ run.changes = 1
  /\ sceneState = "FORMED"

\* C9: a scene-state intent is handed to onGesture on a processed frame exactly
\* when the frame's score passes the gesture threshold and the frame is at least
\* the third of an unbroken run of frames with its scene label, a frame with
\* another label or with no label breaking the run.
C9_EmissionExactlyOnStableRun ==
  lastFrame.kind /= "none"
  => ((lastFrame.emitted /= "")
        <=> (/\ lastFrame.confident
             /\ lastFrame.label \in SceneLabels
             /\ run.len > GestureStableThreshold))

\* C2 (band): on a frame with no label and the openness inside its band, a
\* distance from the lower threshold up to the upper one leaves the committed
\* pinch state as it was.
InPinchCase(fr) == fr.kind = "ok" /\ fr.hand /\ fr.label = "" /\ fr.pinchAllowed

C2_Band ==
  (/\ InPinchCase(lastFrame)
   /\ lastFrame.dist >= PinchDownThreshold
   /\ lastFrame.dist < PinchUpThreshold)
  => pinchStateRef = lastFrame.pinchBefore

\* C2 (commit): over frames with no label and the openness inside its band, the
\* committed pinch state becomes true only on the second of two consecutive
\* frames below the lower threshold, and false only on the second of two
\* consecutive frames at or above the upper threshold.
C2_Step ==
  (/\ InPinchCase(lastFrame)
   /\ InPinchCase(lastFrame')
   /\ pinchStateRef' /= pinchStateRef)
  => IF pinchStateRef'
     THEN lastFrame.dist < PinchDownThreshold /\ lastFrame'.dist < PinchDownThreshold
     ELSE lastFrame.dist >= PinchUpThreshold /\ lastFrame'.dist >= PinchUpThreshold

CloseTimers == {tm \in timers : tm.kind = "close"}
FadeInTimers == {tm \in timers : tm.kind = "fadeIn"}
OpenPrecondition ==
  /\ now >= pinchCooldownUntilRef
  /\ handPosition.isPinching
  /\ ~isLightboxOpen
  /\ PhotoGroupMounted

\* C3, at the opening frame: a frame callback that reads a committed pinch with
\* the lightbox closed, the cooldown elapsed and the ornaments mounted marks the
\* lightbox open, selects a photo index of the list and sets the opacity to 0.
C3_Opens ==
  (ExperienceFrame /\ OpenPrecondition)
    => /\ isLightboxOpen'
       /\ lightboxPhotoIndex' \in 0..(photos - 1)
       /\ lightboxOpacity' = 0
       /\ opened'.log = <<0>>

\* C3, afterwards: as long as no frame has read a release, the opacities set
\* since the open are 0, or 0 then 1; after the 0 the fade-in timer is pending
\* for 10 ms after the open, after the 1 the opacity is 1.
C3_Sequence ==
  (isLightboxOpen /\ fadeOutTimerRef = NoTimer)
    => \/ /\ opened.log = <<0>>
          /\ lightboxOpacity = 0
          /\ FadeInTimers = {[kind |-> "fadeIn", due |-> opened.at + FadeInMs]}
          /\ now <= opened.at + FadeInMs
       \/ /\ opened.log = <<0, 1>>
          /\ lightboxOpacity = 1
          /\ FadeInTimers = {}

\* C3: opening the lightbox sets the opacity to 0, the fade-in timer sets it to 1
\* 10 ms later, and it stays 1 for as long as the pinch stays true.
C3_OpenFadeIn == []C3_Sequence /\ [][C3_Opens]_vars

\* A formed scene with the lightbox open, faded in, and the pinch still held.
C3_Witness ==
  /\ sceneState = "FORMED"
  /\ isLightboxOpen
  /\ fadeOutTimerRef = NoTimer
  /\ handPosition.isPinching
  /\ opened.log = <<0, 1>>
  /\ lightboxOpacity = 1
  /\ now = opened.at + FadeInMs

\* C4, at the releasing frame: a frame callback that reads pinch = false with
\* the lightbox open and no close timer pending sets the opacity to 0 and starts
\* one close timer, due 400 ms later.
C4_Release ==
  (ExperienceFrame /\ ~handPosition.isPinching /\ isLightboxOpen
     /\ fadeOutTimerRef = NoTimer)
    => /\ lightboxOpacity' = 0
       /\ isLightboxOpen'
       /\ fadeOutTimerRef' = now + FadeOutMs
       /\ timers' = timers \cup {[kind |-> "close", due |-> now + FadeOutMs]}

\* C4, when the close timer fires: the lightbox is marked closed, the selected
\* photo index and the timer handle are cleared.
C4_Fire ==
  CloseTimer
    => /\ ~isLightboxOpen' /\ ~appIsLightboxOpen'
       /\ lightboxPhotoIndex' = NoPhoto /\ appLightboxPhotoIndex' = NoPhoto
       /\ fadeOutTimerRef' = NoTimer

\* C4, in between: the close timer is fire-once; it is pending exactly while
\* the handle is set, the lightbox is then still open, and time does not pass
\* its due instant.
C4_Pending ==
  IF fadeOutTimerRef = NoTimer
  THEN CloseTimers = {}
  ELSE /\ CloseTimers = {[kind |-> "close", due |-> fadeOutTimerRef]}
       /\ isLightboxOpen
       /\ now <= fadeOutTimerRef

\* C4: a release read while the lightbox is open starts one 400 ms close timer,
\* whose firing closes the lightbox; every release while open is eventually
\* followed by the closed lightbox.
C4_Close ==
  /\ []C4_Pending
  /\ [][C4_Release]_vars
  /\ [][C4_Fire]_vars
  /\ (isLightboxOpen /\ fadeOutTimerRef /= NoTimer) ~> ~isLightboxOpen

\* The lightbox is closing: a release was read, the opacity is 0 and the close
\* timer is pending 400 ms after that frame.
C4_Witness ==
  /\ isLightboxOpen
  /\ ~handPosition.isPinching
  /\ fadeOutTimerRef = now + FadeOutMs
  /\ lightboxOpacity = 0
  /\ Last(opened.log) = 0 /\ Len(opened.log) > 1

\* ---- the selection
\* A set of ornaments is a set of the nearest to the camera when no ornament
\* outside it is nearer than one inside.
IsNearestSet(S, cam) ==
  /\ S \subseteq Ornaments
  /\ Cardinality(S) = Min(NearestCount, NumOrnaments)
  /\ \A i \in S, j \in Ornaments \ S : OrnamentDistance(cam, i) <= OrnamentDistance(cam, j)
Unviewed(S, history) == {i \in S : ~SeqContains(history, i % photos)}

C10_RotationSuppression ==
  lastRender.delta = IF lastRender.open THEN 0 ELSE lastRender.speed

\* A frame in the closing fade read a rotation speed other than 0 and added 0.
C10_Witness ==
  /\ isLightboxOpen
  /\ fadeOutTimerRef /= NoTimer
  /\ lastRender.open
  /\ lastRender.speed /= 0
  /\ lastRender.delta = 0
  /\ rotationSpeed = lastRender.speed

\* ---- the particle bursts
Batches(q) == {q[i] : i \in 1..Len(q)}
TransitionBatches(q) == {b \in Batches(q) : ~b.photoMode}
ChaosToFormed == prevSceneState = "CHAOS" /\ prevSceneState' = "FORMED"
LightboxCloses == isLightboxOpen /\ ~isLightboxOpen'
NewTransitionBatches == TransitionBatches(particleBatchesRef') \ TransitionBatches(particleBatchesRef)
NoneAfterActiveWindow ==
  \A b \in TransitionBatches(particleBatchesRef) : now - b.startTime < ActiveWindowMs

C7_BurstLifecycle ==
  /\ [][\A b \in Batches(particleBatchesRef) :
          b \notin Batches(particleBatchesRef') => now' - b.startTime >= b.lifetime]_vars
  /\ [][ParticleFrame
          => \A b \in Batches(particleBatchesRef') : now - b.startTime < b.lifetime]_vars

\* ---- the population animators
StrictlyBetween(before, after, target) ==
  \/ before < after /\ after < target
  \/ target < after /\ after < before

\* C8: a frame with a delta above 0 leaves the position of an entity that is
\* away from the active target strictly between its position before the frame
\* and the target: it does not overshoot the target and does not land on it.
\* (Only the frame callbacks and a new photo list change a position.)
C8_StrictlyBetween ==
  [][\A population \in Populations :
       (currentPos'[population] /= currentPos[population] /\ photos' = photos)
         => StrictlyBetween(currentPos[population], currentPos'[population],
                            ActiveTarget(population, sceneState))]_vars

\* A photo selection: the frame callback of Experience takes the lightbox from
\* closed to opening.
Selects == ~isLightboxOpen /\ isLightboxOpen'

\* C11 (AppSpec): no photo selection happens less than PinchCooldownMs after a
\* change of the scene state, whatever pinch the frame callbacks read in
\* between.
C11_Cooldown ==
  [][Selects => \A t \in sceneChangedAt : now >= t + PinchCooldownMs]_vars

\* C11: the scene changed, a pinch was read by a frame callback during the
\* cooldown without opening anything, and a later frame callback opened the
\* lightbox at the end of the cooldown.
C11_Witness ==
  /\ isLightboxOpen
  /\ \E t \in sceneChangedAt : opened.at = t + PinchCooldownMs
  /\ sceneState = "FORMED"
  /\ handPosition.isPinching

\* C12 (ReopenLive): between two frame callbacks of Experience that read
\* pinch = false at most one photo is selected, and no photo is selected while
\* the lightbox is marked open.
C12_OneOpenPerPinch ==
  [][/\ selections' <= 1
     /\ selections' > selections => ~isLightboxOpen]_vars

\* C12: a second pinch has opened the lightbox a second time, after the release
\* that closed the first.
C12_Witness ==
  /\ isLightboxOpen
  /\ selections = 1
  /\ Len(recentlyViewedPhotos) = 2
  /\ handPosition.isPinching

\* C15, during the fade-out: a frame callback that reads pinch = true while the
\* close timer is pending leaves the timer, its handle, the open lightbox, the
\* selected photo and the history as they are.
C15_HeldPinch ==
  (ExperienceFrame /\ fadeOutTimerRef /= NoTimer /\ handPosition.isPinching)
    => /\ CloseTimers = {[kind |-> "close", due |-> fadeOutTimerRef]}
       /\ UNCHANGED <<timers, fadeOutTimerRef, isLightboxOpen, lightboxPhotoIndex,
                      recentlyViewedPhotos, selections, lightboxOpacity>>

\* C15, after the close: a frame callback that reads the pinch still held, the
\* lightbox closed by the timer and the cooldown elapsed opens the lightbox
\* again with a new selection, which it adds to the history.
C15_Reopens ==
  (ExperienceFrame /\ handPosition.isPinching /\ ~isLightboxOpen
     /\ recentlyViewedPhotos /= <<>> /\ now >= pinchCooldownUntilRef)
    => /\ isLightboxOpen'
       /\ lightboxPhotoIndex' \in 0..(photos - 1)
       /\ recentlyViewedPhotos' = HistoryAfter(recentlyViewedPhotos, lightboxPhotoIndex')
       /\ selections' = 1
       /\ opened'.at = now

\* C15 (ReopenLive): a pending close is not cancelled by a pinch; the timer
\* fires and closes the lightbox, and a pinch still held then opens it again.
C15_PendingClose ==
  /\ [][C15_HeldPinch]_vars
  /\ (fadeOutTimerRef /= NoTimer /\ handPosition.isPinching) ~> ~isLightboxOpen
  /\ [][CloseTimer => ~isLightboxOpen' /\ fadeOutTimerRef' = NoTimer]_vars
  /\ [][C15_Reopens]_vars

\* C15: the pinch was committed again during the fade-out of the first open,
\* the close timer fired, and a frame callback at that instant opened the
\* lightbox again on another photo.
C15_Witness ==
  /\ isLightboxOpen
  /\ handPosition.isPinching
  /\ Len(opened.before) = 1
  /\ opened.at = FadeOutMs
  /\ lightboxPhotoIndex /= opened.before[1]

\* C13 (LayoutSpec): computing the layout of PhotoOrnaments again produces the
\* chaos position and the target position it produced before (the code passes
\* no seed: every computation draws from the same global generator).
C13_SameLayout ==
  [][(photos > 0 /\ photos' /= photos) => photoData' = photoData]_vars

\* C14 (AppSpec): for as long as the lightbox is open ParticleEffect is active,
\* so that its frame callback runs and spawns the ambient batches, whatever
\* transition, trigger reset or activity timer came before the open.
C14_AmbientActive == isLightboxOpen => isActive

\* C16 (GestureSpec): after every processed frame labelled Closed_Fist or
\* Open_Palm, whatever its score and its landmarks, the committed pinch state is
\* false, the pinch change counter is 0 and the hand is reported not pinching.
C16_DiscreteGestureWins ==
  (lastFrame.kind = "ok" /\ lastFrame.label \in SceneLabels)
    => /\ ~pinchStateRef
       /\ pinchChangeStableCountRef = 0
       /\ ~handPosition.isPinching

\* C16: the pinch was committed, and a Closed_Fist or Open_Palm frame below the
\* gesture threshold, with the fingers still together and the openness in its
\* band, has taken it back at once.
C16_Witness ==
  /\ lastFrame.kind = "ok"
  /\ lastFrame.label \in SceneLabels
  /\ ~lastFrame.confident
  /\ lastFrame.hand
  /\ lastFrame.dist < PinchDownThreshold
  /\ lastFrame.pinchBefore
  /\ ~pinchStateRef

\* A frame on which every condition of a pinch holds: landmarks with the
\* distance below the lower threshold and the openness inside its band, no
\* blocking label, and a score above the pinch threshold when there is a label.
GoodPinchFrame(fr) ==
  fr.kind = "ok" /\ fr.hand /\ fr.pinchAllowed /\ fr.dist < PinchDownThreshold

NoHandOutcome ==
  /\ rotationSpeed = 0
  /\ ~pinchStateRef
  /\ pinchChangeStableCountRef = 0
  /\ ~handPosition.visible
  /\ ~handPosition.isPinching

C19_ClassifierException ==
  lastFrame.kind = "throw"
    => /\ NoHandOutcome
       /\ lastGestureRef = ""
       /\ gestureStableCountRef = 0
       /\ handPosition.gesture = ""
       /\ lastFrame.emitted = ""
       /\ sceneState = lastFrame.sceneBefore
       /\ requestRef

\* C19: the classifier threw on a frame that followed a committed pinch under
\* the label Victory, and the error was reported.
C19_Witness ==
  /\ lastFrame.kind = "throw"
  /\ lastFrame.pinchBefore
  /\ run.prev = "Victory"
  /\ aiStatus[1] = "ERROR"
  /\ requestRef

\* C20 (GestureSpec): over every sequence of frames each error message is
\* handed to onStatus once: the message of the last failing frame has been
\* reported, and no message has been reported twice.
C20_OncePerMessage ==
  /\ lastRuntimeErrorRef /= "" => SeqContains(errorStatusLog, lastRuntimeErrorRef)
  /\ \A i, j \in 1..Len(errorStatusLog) :
       i /= j => errorStatusLog[i] /= errorStatusLog[j]

\* C21 (TeardownSpec): after the application is torn down no callback of its
\* components changes their state any more: the refs and state of
\* GestureController, Experience and ParticleEffect stay as the teardown
\* left them.
C21_NothingAfterTeardown ==
  [][~mounted => UNCHANGED <<gestureVars, appVars, sceneEffectVars, lightboxVars,
                             particleVars>>]_vars

\* The chains of predictWebcam animation frames that are running.
ActiveLoops == (IF requestRef THEN 1 ELSE 0) + staleLoops

\* C28 (LoopSpec): at most one classification loop is active at any time, also
\* when the effect of GestureController is torn down or run again while the
\* setup of the previous run is still awaiting.
C28_SingleLoop == ActiveLoops <= 1

\* C22 (AmbientSpec): the live batches never number more than the cap, and a
\* frame callback of ParticleEffect that finds a spawn due with the cap reached
\* still creates the new batch and removes the oldest one.
C22_CapByEviction ==
  /\ [](Len(particleBatchesRef) <= MaxAmbientBatches)
  /\ [][(/\ ParticleFrame
          /\ isLightboxOpen
          /\ now >= nextSpawnTime
          /\ Len(particleBatchesRef) = MaxAmbientBatches)
        => /\ particleBatchesRef' /= <<>>
           /\ Last(particleBatchesRef').startTime = now
           /\ particleBatchesRef[1] \notin Range(particleBatchesRef')]_vars

\* The last n entries of a sequence (all of them when it is shorter).
LastOf(s, n) == SubSeq(s, Len(s) - Min(n, Len(s)) + 1, Len(s))

\* C23 (HistorySpec): the history never holds more than MAX_RECENT_HISTORY
\* entries; every selection appends its photo index and keeps the last
\* MAX_RECENT_HISTORY entries, so that a full history loses its oldest entry,
\* and nothing but a selection changes the history.  By induction the history is
\* the last min(k, 10) selections in selection order.
C23_History ==
  /\ [](Len(recentlyViewedPhotos) <= MAX_RECENT_HISTORY)
  /\ [][IF Selects
        THEN recentlyViewedPhotos'
               = LastOf(Append(recentlyViewedPhotos, lightboxPhotoIndex'), MAX_RECENT_HISTORY)
        ELSE UNCHANGED recentlyViewedPhotos]_vars

\* C23: a photo was selected while the history was full.
C23_Witness ==
  /\ isLightboxOpen
  /\ Len(opened.before) = MAX_RECENT_HISTORY
  /\ Len(recentlyViewedPhotos) = MAX_RECENT_HISTORY
  /\ recentlyViewedPhotos[MAX_RECENT_HISTORY] = lightboxPhotoIndex

\* The weight intervals of n candidates, in the doubled unit of the draw: the
\* candidate at position i of the list (rank i - 1) has the weight n - (i - 1),
\* and its interval ends where the weights of the first i candidates add up to.
WeightsUpTo(n, i) == i * (2 * n - i + 1)
InWeightInterval(n, i, r2) ==
  /\ r2 <= WeightsUpTo(n, i)
  /\ IF i = 1 THEN r2 >= 0 ELSE r2 > WeightsUpTo(n, i - 1)

C25_EntityImmutable ==
  [][photos > 0
       => /\ photoData' = photoData
          /\ currentPos'.photo /= currentPos.photo
               => \E delta \in Deltas, weight \in Weights :
                    currentPos'.photo = Lerp(currentPos.photo,
                                             ActiveTarget("photo", sceneState),
                                             PhotoAlpha(sceneState, weight, delta))]_vars

\* C26 (LightboxLive): while the photo list is empty the lightbox is closed, no
\* photo index is selected in Experience or in GrandTreeApp, no pinch has been
\* taken for an open and the history is empty: no frame callback, whatever
\* pinch it read, has entered the selection, where the index is taken modulo
\* the length of the list.
C26_EmptyPhotoList ==
  photos = 0
    => /\ ~isLightboxOpen
       /\ ~appIsLightboxOpen
       /\ lightboxPhotoIndex = NoPhoto
       /\ appLightboxPhotoIndex = NoPhoto
       /\ ~hasPinchedRef
       /\ recentlyViewedPhotos = <<>>
       /\ opened = NotOpened

\* C26: the photo list is empty, the cooldown of the mount has elapsed, a pinch
\* is reported and the frame callback of Experience has run.
C26_Witness ==
  /\ photos = 0
  /\ handPosition.isPinching
  /\ now >= pinchCooldownUntilRef
  /\ lastRender /= NoRender
  /\ ~isLightboxOpen

\* C27 (LightboxLive): while the lightbox is open with a close timer pending,
\* the opacity is 0: the fade-in timer of the open before does not set it to 1
\* once the close has started.
C27_ClosingStaysTransparent ==
  (isLightboxOpen /\ fadeOutTimerRef /= NoTimer) => lightboxOpacity = 0

\* C29 (GestureSpec): after every processed frame that handed a scene-state
\* intent to onGesture, the hand is reported not pinching and the committed
\* pinch state is false; and no step changes the scene state and leaves the
\* hand reported pinching.
C29_IntentExcludesPinch ==
  /\ [](lastFrame.emitted /= "" => (~handPosition.isPinching /\ ~pinchStateRef))
  /\ [][sceneState' /= sceneState => ~handPosition'.isPinching]_vars

\* C29: a frame whose landmarks have the fingers together handed over an
\* intent that changed the scene state, and the hand is reported not pinching.
C29_Witness ==
  /\ lastFrame.kind = "ok"
  /\ lastFrame.emitted /= ""
  /\ lastFrame.sceneBefore /= sceneState
  /\ lastFrame.hand
  /\ lastFrame.dist < PinchDownThreshold
  /\ ~handPosition.isPinching

\* C30 (ReopenLive): in every state the lightbox is open in Experience exactly
\* when a photo index is selected there, the flag and the index GrandTreeApp
\* holds equal those of Experience, and no step from an open lightbox to an open
\* lightbox changes the selected photo index.
C30_LightboxConsistent ==
  /\ [](isLightboxOpen <=> lightboxPhotoIndex /= NoPhoto)
  /\ [](appIsLightboxOpen = isLightboxOpen /\ appLightboxPhotoIndex = lightboxPhotoIndex)
  /\ [][(isLightboxOpen /\ isLightboxOpen') => lightboxPhotoIndex' = lightboxPhotoIndex]_vars

\* C30: the lightbox, opened a second time on another photo than the first,
\* is in its closing fade with the photo index still selected.
C30_Witness ==
  /\ isLightboxOpen
  /\ fadeOutTimerRef /= NoTimer
  /\ Len(opened.before) = 1
  /\ lightboxPhotoIndex /= opened.before[1]
  /\ appLightboxPhotoIndex = lightboxPhotoIndex
====
